---- MODULE Spec2Model ----
(***************************************************************************)
(* Localis launcher (launcher_windows.py): configuration resolution,       *)
(* runtime location, repository synchronisation, port probing, server      *)
(* launch, readiness wait, browser opening and supervision of the child.   *)
(*                                                                         *)
(* Time is counted in ticks of half a second (the sleep of the readiness   *)
(* poll).  Text values are strings; Python's None is the value None below. *)
(***************************************************************************)
EXTENDS Integers, Sequences, FiniteSets, TLC

\* ------------------------------------------------------------------ values

\* Python's None (os.getenv of an unset variable, dict.get of a missing key).
None == "<None>"

DefaultRepoUrl == "https://github.com/yourusername/localis-app.git"
DefaultBranch == "main"
DefaultHost == "127.0.0.1"
DefaultPort == 8000
Wildcard == "0.0.0.0"
Loopback == "127.0.0.1"

\* The four environment variables main() reads for the configuration.
EnvNames == {"LOCALIS_APP_REPO_URL", "LOCALIS_APP_BRANCH", "LOCALIS_HOST", "LOCALIS_PORT"}

\* os.getenv(name): the value, or None when the variable is unset.
getenv(e, name) == IF name \in DOMAIN e THEN e[name] ELSE None

\* dict.get(key, default).
dictget(d, key, default) == IF key \in DOMAIN d THEN d[key] ELSE default

\* Python truth of a text-or-None value and of an integer.
Truthy(v) == v # None /\ v # ""

\* a or b, on text-or-None values.
Or(a, b) == IF Truthy(a) THEN a ELSE b

\* int(text) on the texts the model feeds it; any other text raises ValueError.
IntTable == ("0" :> 0) @@ ("8080" :> 8080) @@ ("65530" :> 65530) @@ ("-1" :> (0 - 1))

IsIntText(s) == s \in DOMAIN IntTable

\* ------------------------------------------------------------- load_config

\* A config file on disk: missing, unreadable/malformed, or a JSON object.
\* load_config returns {} for the first two and the object for the third.
EmptyDict == [k \in {} |-> None]

load_config(file) == IF file.status = "ok" THEN file.content ELSE EmptyDict

\* --------------------------------------------- main: configuration priority

\* Variant of resolve_repo_url whose last fallback is the empty text.
resolve_repo_url_no_default(e, config) ==
    Or(getenv(e, "LOCALIS_APP_REPO_URL"),
       Or(dictget(config, "app_repo_url", None),
          dictget(config, "repo_url", "")))

resolve_repo_url(e, config) ==
    Or(getenv(e, "LOCALIS_APP_REPO_URL"),
       Or(dictget(config, "app_repo_url", None),
          dictget(config, "repo_url", DefaultRepoUrl)))

resolve_branch(e, config) ==
    Or(getenv(e, "LOCALIS_APP_BRANCH"),
       Or(dictget(config, "app_branch", None),
          dictget(config, "branch", DefaultBranch)))

\* Variant of resolve_host that consults the file before the environment.
resolve_host_file_first(e, config) ==
    Or(dictget(config, "host", None), Or(getenv(e, "LOCALIS_HOST"), DefaultHost))

resolve_host(e, config) ==
    Or(getenv(e, "LOCALIS_HOST"), dictget(config, "host", DefaultHost))

\* int(os.getenv('LOCALIS_PORT', 0)) raises ValueError on text that is no integer.
port_raises(e) ==
    /\ "LOCALIS_PORT" \in DOMAIN e
    /\ ~IsIntText(e["LOCALIS_PORT"])

env_port(e) == IF "LOCALIS_PORT" \in DOMAIN e THEN IntTable[e["LOCALIS_PORT"]] ELSE 0

resolve_port(e, config) ==
    IF env_port(e) # 0 THEN env_port(e) ELSE dictget(config, "port", DefaultPort)

\* ------------------------------------------------------------ runtime locator

InstallPython == "install_root/runtime/python/python.exe"
BundlePython == "bundle_root/runtime/python/python.exe"
SysExecutable == "sys.executable"
InstallGit == "install_root/runtime/git/bin/git.exe"
BundleGit == "bundle_root/runtime/git/bin/git.exe"
SystemGit == "git"

\* bundle_root is sys._MEIPASS in a frozen executable and None in a script.
bundle_root_of(is_frozen) == IF is_frozen THEN "sys._MEIPASS" ELSE None

\* The candidate list built from install_root (always given) and bundle_root.
python_candidates(bundle_root) ==
    IF bundle_root # None THEN <<InstallPython, BundlePython>> ELSE <<InstallPython>>

git_candidates(bundle_root) ==
    IF bundle_root # None THEN <<InstallGit, BundleGit>> ELSE <<InstallGit>>

\* The first candidate that exists on disk (files: the set of existing paths), or None.
RECURSIVE first_existing(_, _)
first_existing(candidates, files) ==
    IF candidates = <<>> THEN None
    ELSE IF Head(candidates) \in files THEN Head(candidates)
    ELSE first_existing(Tail(candidates), files)

\* Variant of find_bundled_python that falls back to the running interpreter
\* in a frozen executable too.
find_bundled_python_any(files, bundle_root, frozen) ==
    LET found == first_existing(python_candidates(bundle_root), files) IN
    IF found # None THEN found ELSE SysExecutable

find_bundled_python(files, bundle_root, is_frozen) ==
    LET found == first_existing(python_candidates(bundle_root), files) IN
    IF found # None THEN found
    ELSE IF ~is_frozen THEN SysExecutable
    ELSE None

\* Outcomes of running `git --version` with a 5 second timeout.
ProbeOutcomes == {"rc0", "nonzero", "timeout", "notfound", "oserror"}

\* Only TimeoutExpired and FileNotFoundError are caught around the probe.
probe_raises(outcome) == outcome = "oserror"

find_bundled_git(files, bundle_root, outcome) ==
    LET found == first_existing(git_candidates(bundle_root), files) IN
    IF found # None THEN [value |-> found, probes |-> 0, raised |-> FALSE]
    ELSE IF outcome = "rc0" THEN [value |-> SystemGit, probes |-> 1, raised |-> FALSE]
    ELSE [value |-> None, probes |-> 1, raised |-> probe_raises(outcome)]

\* ------------------------------------------------- the application checkout

\* install_root/app on disk.  Absent: no directory.  Untracked: a directory
\* with no .git.  Tracked: a checkout on `branch` whose content is `rev`
\* ("New" is the upstream tip of the branch, "Old" an ancestor of it).
\* Partial: what a clone that was killed or failed half-way leaves behind.
AbsentDir == [kind |-> "Absent", branch |-> None, rev |-> None]
UntrackedDir == [kind |-> "Untracked", branch |-> None, rev |-> "foreign"]
PartialDir == [kind |-> "Partial", branch |-> None, rev |-> "partial"]
TrackedDir(b, r) == [kind |-> "Tracked", branch |-> b, rev |-> r]

Branches == {"main", "dev"}
Revs == {"Old", "New"}

\* app_dir.exists() and (app_dir / '.git').exists()
dir_exists(dir) == dir.kind # "Absent"
\* Variant of git_dir_exists that accepts every directory.
git_dir_unchecked(dir) == TRUE
git_dir_exists(dir) == dir.kind \in {"Tracked", "Partial"}

\* How one subprocess.run of git ends: exit code 0, another exit code,
\* TimeoutExpired (the child is killed), or another exception (it never ran).
Outcomes == {"ok", "nonzero", "timeout", "exception"}

\* What git does to the directory (the environment, not the launcher).
\* clone: exit 0 leaves a checkout of the branch at its tip; a failed clone
\* removes what it created or, killed on timeout or failing late, leaves it.
git_clone(dir, b, oc) ==
    IF oc.clone = "ok" THEN TrackedDir(b, "New")
    ELSE IF oc.clone = "exception" THEN dir
    ELSE IF oc.leaves THEN PartialDir
    ELSE dir

\* checkout: exit 0 switches to the branch (its content is where the local
\* branch stands); already on the branch, nothing changes.
git_checkout(dir, b, oc) ==
    IF oc.checkout # "ok" THEN dir
    ELSE IF dir.kind = "Tracked" /\ dir.branch = b THEN dir
    ELSE TrackedDir(b, oc.rev)

\* pull --ff-only: exit 0 leaves the branch at the upstream tip.
git_pull(dir, oc) ==
    IF oc.pull = "ok" THEN [dir EXCEPT !.rev = "New"] ELSE dir

\* The environment's answers to one call of clone_or_update_repo.
GitAnswers ==
    [clone : Outcomes, leaves : BOOLEAN, fetch : Outcomes,
     checkout : Outcomes, rev : Revs, pull : Outcomes]

\* ----------------------------------------------------- clone_or_update_repo

CloneCmd(url, b) == [op |-> "clone", url |-> url, branch |-> b]
FetchCmd == [op |-> "fetch", url |-> None, branch |-> None]
CheckoutCmd(b) == [op |-> "checkout", url |-> None, branch |-> b]
PullCmd == [op |-> "pull", url |-> None, branch |-> None]

\* Variant of checkout_target that ignores the requested branch.
checkout_default(b) == DefaultBranch

\* The branch handed to `git checkout` in the update sequence.
checkout_target(b) == b

\* Variant of clone_or_update_repo whose update goes on after a failed step.
clone_or_update_repo_keep_going(dir, url, b, oc) ==
    IF ~dir_exists(dir)
    THEN [ok |-> oc.clone = "ok",
          dir |-> git_clone(dir, b, oc),
          cmds |-> <<CloneCmd(url, b)>>]
    ELSE IF ~git_dir_exists(dir)
    THEN [ok |-> FALSE, dir |-> dir, cmds |-> <<>>]
    ELSE [ok |-> oc.fetch = "ok" /\ oc.checkout = "ok" /\ oc.pull = "ok",
          dir |-> git_pull(git_checkout(dir, checkout_target(b), oc), oc),
          cmds |-> <<FetchCmd, CheckoutCmd(checkout_target(b)), PullCmd>>]

\* Returns the result (ok), the directory afterwards and the git commands issued.
clone_or_update_repo(dir, url, b, oc) ==
    IF ~dir_exists(dir)
    THEN [ok |-> oc.clone = "ok",
          dir |-> git_clone(dir, b, oc),
          cmds |-> <<CloneCmd(url, b)>>]
    ELSE IF ~git_dir_exists(dir)
    THEN [ok |-> FALSE, dir |-> dir, cmds |-> <<>>]
    ELSE IF oc.fetch # "ok"
    THEN [ok |-> FALSE, dir |-> dir, cmds |-> <<FetchCmd>>]
    ELSE IF oc.checkout # "ok"
    THEN [ok |-> FALSE,
          dir |-> git_checkout(dir, checkout_target(b), oc),
          cmds |-> <<FetchCmd, CheckoutCmd(checkout_target(b))>>]
    ELSE [ok |-> oc.pull = "ok",
          dir |-> git_pull(git_checkout(dir, checkout_target(b), oc), oc),
          cmds |-> <<FetchCmd, CheckoutCmd(checkout_target(b)), PullCmd>>]

\* ------------------------------------------------------ install_dependencies

\* requirements.txt missing: True.  Otherwise pip's exit code decides; a
\* timeout or any other exception is caught and gives False.
install_dependencies(requirements_exists, outcome) ==
    IF ~requirements_exists THEN TRUE ELSE outcome = "ok"

\* ------------------------------------------------------- find_available_port

MaxAttempts == 10
MaxPortNumber == 65535

\* sock.bind(('127.0.0.1', port)): OverflowError outside 0..65535 (not an
\* OSError), OSError on a port another socket holds, success otherwise
\* (port 0 binds: the system picks an ephemeral port).
bind(port, occupied) ==
    IF port < 0 \/ port > MaxPortNumber THEN "OverflowError"
    ELSE IF port \in occupied THEN "OSError"
    ELSE "ok"

\* for port in range(start, stop): the first port that binds is returned,
\* OSError moves on, any other exception leaves the loop; the end of the range
\* raises LauncherError.
RECURSIVE probe_ports(_, _, _)
probe_ports(port, stop, occupied) ==
    IF port >= stop THEN [port |-> port, error |-> "LauncherError"]
    ELSE IF bind(port, occupied) = "ok" THEN [port |-> port, error |-> "none"]
    ELSE IF bind(port, occupied) = "OSError" THEN probe_ports(port + 1, stop, occupied)
    ELSE [port |-> port, error |-> bind(port, occupied)]

find_available_port(start, max_attempts, occupied) ==
    probe_ports(start, start + max_attempts, occupied)

\* ------------------------------------------------- readiness probe and URL

\* Variant of check_host without the wildcard rewrite.
check_host_identity(h) == h

\* check_host in main() and browser_host in open_browser() and main().
check_host(h) == IF h = Wildcard THEN Loopback ELSE h
browser_host(h) == IF h = Wildcard THEN Loopback ELSE h

Url(h, p) == [host |-> h, port |-> p]
NoUrl == [host |-> None, port |-> 0]

\* Variant of git_missing_fatal that ignores the existing directory.
git_missing_always_fatal(git, dir) == git = None

\* main(), line 521: without git the run is fatal only when app_dir is missing.
git_missing_fatal(git, dir) == git = None /\ ~dir_exists(dir)

\* Variant of sync_is_fatal that ignores the existing directory.
sync_failure_fatal(ok, dir) == ~ok

\* main(): a failed clone_or_update_repo is fatal only when app_dir is missing.
sync_is_fatal(ok, dir) == ~ok /\ ~dir_exists(dir)

\* ------------------------------------------------------------------- state

VARIABLES
    env,         \* the process environment: a function on a subset of EnvNames
    file,        \* install_root/localis_runtime_config.json: [status, content]
    is_frozen,   \* sys.frozen
    disk,        \* the runtime executables that exist under install_root and bundle_root
    app_dir,     \* install_root/app on disk
    dir0,        \* app_dir as the run found it
    pc,          \* the statement main() is at
    exit_code,   \* the launcher's exit code once it has exited
    error,       \* the exception that ended the run ("none" if none)
    log,         \* the set of messages logged so far
    repo_url, branch, host, port_start,   \* the resolved configuration
    python_exe, git_exe,                  \* the located executables
    probes,      \* `git --version` subprocesses spawned
    success,     \* the result of clone_or_update_repo: "none", "skipped", "ok", "failed"
    cmds,        \* the git commands issued, in order
    deps,        \* the result of install_dependencies: "none", "ok", "failed"
    occupied,    \* the ports other sockets hold while the launcher probes
    port,        \* the port find_available_port returned
    child,       \* the server process: [state, host, port, python]
    terms,       \* calls of server_process.terminate()
    timeout,     \* wait_for_server's timeout, in ticks
    elapsed,     \* time.time() - start_time in wait_for_server, in ticks
    in_time,     \* the child began to accept connections before the timeout elapsed
    probe,       \* the address wait_for_server connects to
    ready,       \* what wait_for_server returned: "none", "true", "false"
    browser,     \* the URL handed to webbrowser.open
    shown,       \* the URL logged as "Access at"
    history      \* results of successive clone_or_update_repo calls (SpecSync)

inputs == <<env, file, is_frozen, dir0, disk>>
config == <<repo_url, branch, host, port_start>>
handles == <<python_exe, git_exe, probes>>
repo == <<app_dir, success, cmds, history>>
net == <<occupied, port>>
proc == <<child, terms>>
waiting == <<timeout, elapsed, in_time, probe, ready>>
ui == <<browser, shown>>
ctl == <<pc, exit_code, error>>
vars == <<inputs, config, handles, repo, net, proc, waiting, ui, ctl, log, deps>>

\* exit_code while the launcher runs, and port before one is chosen.
Running == 0 - 1
NoPort == 0 - 9
NoChild == [state |-> "none", host |-> None, port |-> NoPort, python |-> None]

\* --------------------------------------------------------- bounds and inputs

\* wait_for_server's timeout as main() passes it (30 s in the code), scaled
\* down to a few ticks, and the largest timeout SpecWait calls it with.
ReadyTimeout == 2
MaxWait == 4
\* Successive clone_or_update_repo calls in SpecSync.
MaxCalls == 2

Dict(status, content) == [status |-> status, content |-> content]
NoFile == Dict("missing", EmptyDict)

\* Every environment and config file of SpecConfig: each variable unset, empty
\* or set; each key absent, empty or present.
EnvTexts(name) ==
    IF name = "LOCALIS_APP_REPO_URL" THEN {"", "env-url"}
    ELSE IF name = "LOCALIS_APP_BRANCH" THEN {"", "dev"}
    ELSE IF name = "LOCALIS_HOST" THEN {"", Wildcard, "192.168.1.5"}
    ELSE {"", "0", "8080", "abc"}

\* The dictionaries holding `name` with one of `values`, or not holding it.
Opt(name, values) == {EmptyDict} \cup {name :> v : v \in values}

Envs ==
    {a @@ b @@ c @@ d :
        a \in Opt("LOCALIS_APP_REPO_URL", EnvTexts("LOCALIS_APP_REPO_URL")),
        b \in Opt("LOCALIS_APP_BRANCH", EnvTexts("LOCALIS_APP_BRANCH")),
        c \in Opt("LOCALIS_HOST", EnvTexts("LOCALIS_HOST")),
        d \in Opt("LOCALIS_PORT", EnvTexts("LOCALIS_PORT"))}

KeyValues(key) ==
    IF key = "app_repo_url" THEN {"", "app-url"}
    ELSE IF key = "repo_url" THEN {"", "legacy-url"}
    ELSE IF key = "app_branch" THEN {"", "dev"}
    ELSE IF key = "branch" THEN {"legacy"}
    ELSE IF key = "host" THEN {"", Wildcard}
    ELSE {0, 9000}

Contents ==
    {a @@ b @@ c @@ d @@ e @@ f :
        a \in Opt("app_repo_url", KeyValues("app_repo_url")),
        b \in Opt("repo_url", KeyValues("repo_url")),
        c \in Opt("app_branch", KeyValues("app_branch")),
        d \in Opt("branch", KeyValues("branch")),
        e \in Opt("host", KeyValues("host")),
        f \in Opt("port", KeyValues("port"))}

\* A config file is missing, unreadable or malformed, a JSON value that is no
\* object (json.load returns a list, a number, ...), or a JSON object.
Files ==
    {Dict(s, EmptyDict) : s \in {"missing", "malformed", "nondict"}}
        \cup {Dict("ok", c) : c \in Contents}

\* The environments and config files of the runs Spec follows.
LaunchInputs ==
    {[env |-> EmptyDict, file |-> NoFile],
     [env |-> ("LOCALIS_APP_REPO_URL" :> "env-url") @@ ("LOCALIS_HOST" :> Wildcard),
      file |-> NoFile],
     [env |-> ("LOCALIS_APP_BRANCH" :> "dev") @@ ("LOCALIS_HOST" :> "192.168.1.5"),
      file |-> Dict("malformed", EmptyDict)],
     [env |-> "LOCALIS_PORT" :> "65530", file |-> Dict("ok", "repo_url" :> "")],
     [env |-> "LOCALIS_PORT" :> "abc", file |-> NoFile],
     [env |-> EmptyDict, file |-> Dict("nondict", EmptyDict)],
     [env |-> EmptyDict, file |-> Dict("ok", ("repo_url" :> "legacy-url") @@ ("port" :> 0))]}

\* The bundled executables a run may find on disk: any of the four candidates.
RuntimeFiles == {InstallPython, BundlePython, InstallGit, BundleGit}
Disks == SUBSET RuntimeFiles

\* The directories a run of Spec may find, and those SpecSync starts from.
LaunchDirs == {AbsentDir, UntrackedDir, TrackedDir("main", "Old"), TrackedDir("dev", "New")}
InitDirs == {AbsentDir, UntrackedDir} \cup {TrackedDir(b, r) : b \in Branches, r \in Revs}

\* ------------------------------------------------------------------- main()

\* The pieces of a state in which nothing has happened yet.
InputsAre(e, f, frozen, dir) ==
    env = e /\ file = f /\ is_frozen = frozen /\ app_dir = dir /\ dir0 = dir
At(p) == pc = p /\ exit_code = Running /\ error = "none" /\ log = {}
Unresolved == repo_url = None /\ branch = None /\ host = None /\ port_start = NoPort
NoHandles == python_exe = None /\ git_exe = None /\ probes = 0
NoSync == success = "none" /\ cmds = <<>> /\ history = <<>> /\ deps = "none"
NoNet == occupied = {} /\ port = NoPort
NoProc == child = NoChild /\ terms = 0
NoWait == timeout = 0 /\ elapsed = 0 /\ in_time = FALSE /\ probe = NoUrl /\ ready = "none"
NoUi == browser = NoUrl /\ shown = NoUrl

\* main() starts: one environment, config file and disk.
Init ==
    \E i \in LaunchInputs, frozen \in BOOLEAN, dir \in LaunchDirs, d \in Disks :
        /\ InputsAre(i.env, i.file, frozen, dir) /\ disk = d /\ At("config")
        /\ Unresolved /\ NoHandles /\ NoSync /\ NoNet /\ NoProc /\ NoWait /\ NoUi

\* except LauncherError / except Exception at the end of main(): the error is
\* logged and the launcher exits with code 1.
LauncherErrors == {"PythonNotFound", "GitNotFound", "RepoUnavailable", "NoPortAvailable",
                   "ServerNotReady"}

Fail(tag) ==
    /\ pc' = "exit"
    /\ exit_code' = 1
    /\ error' = tag
    /\ log' = log \cup {IF tag \in LauncherErrors THEN "Launcher error" ELSE "Unexpected error"}

\* config.get on a JSON value that is no object raises AttributeError; an
\* `or` chain reaches config.get only when the environment value is falsy.
attribute_error(e, f, name) == f.status = "nondict" /\ ~Truthy(getenv(e, name))

\* The exception lines 484-494 raise, in statement order, or "none".
config_error(e, f) ==
    IF \/ attribute_error(e, f, "LOCALIS_APP_REPO_URL")
       \/ attribute_error(e, f, "LOCALIS_APP_BRANCH")
       \/ attribute_error(e, f, "LOCALIS_HOST")
    THEN "AttributeError"
    ELSE IF port_raises(e) THEN "ValueError"
    ELSE IF f.status = "nondict" /\ env_port(e) = 0 THEN "AttributeError"
    ELSE "none"

\* Lines 478-496: load the config file and resolve the four fields.
ResolveConfig ==
    /\ pc = "config"
    /\ LET c == load_config(file) IN
       IF config_error(env, file) # "none"
       THEN /\ Fail(config_error(env, file))
            /\ UNCHANGED config
       ELSE /\ repo_url' = resolve_repo_url(env, c)
            /\ branch' = resolve_branch(env, c)
            /\ host' = resolve_host(env, c)
            /\ port_start' = resolve_port(env, c)
            /\ pc' = "python"
            /\ log' = log \cup (IF file.status = "missing" THEN {"Config file not found"}
                                ELSE IF file.status = "malformed" THEN {"Failed to load config"}
                                ELSE {})
            /\ UNCHANGED <<exit_code, error>>
    /\ UNCHANGED <<inputs, handles, repo, net, proc, waiting, ui, deps>>

\* Lines 498-507: find the interpreter; None is fatal.
FindPython ==
    /\ pc = "python"
    /\ LET found == find_bundled_python(disk, bundle_root_of(is_frozen), is_frozen) IN
        /\ python_exe' = found
        /\ IF found = None
           THEN Fail("PythonNotFound")
           ELSE /\ pc' = "git"
                /\ UNCHANGED <<exit_code, error, log>>
    /\ UNCHANGED <<inputs, config, git_exe, probes, repo, net, proc, waiting, ui, deps>>

\* Lines 509-526: find git; without git and without app/ the run is fatal.
FindGit ==
    /\ pc = "git"
    /\ \E outcome \in ProbeOutcomes :
        LET r == find_bundled_git(disk, bundle_root_of(is_frozen), outcome) IN
        /\ probes' = probes + r.probes
        /\ IF r.raised
           THEN /\ Fail("ProbeError")
                /\ UNCHANGED git_exe
           ELSE /\ git_exe' = r.value
                /\ IF git_missing_fatal(r.value, app_dir)
                   THEN Fail("GitNotFound")
                   ELSE /\ pc' = "sync"
                        /\ UNCHANGED <<exit_code, error, log>>
    /\ UNCHANGED <<inputs, config, python_exe, repo, net, proc, waiting, ui, deps>>

\* Lines 528-538: clone or update when git was found.
Sync ==
    /\ pc = "sync"
    /\ IF git_exe # None
       THEN \E oc \in GitAnswers :
            LET r == clone_or_update_repo(app_dir, repo_url, branch, oc) IN
            /\ app_dir' = r.dir
            /\ cmds' = cmds \o r.cmds
            /\ success' = IF r.ok THEN "ok" ELSE "failed"
            /\ IF sync_is_fatal(r.ok, r.dir)
               THEN Fail("RepoUnavailable")
               ELSE /\ pc' = "deps"
                    /\ log' = log \cup (IF r.ok THEN {}
                                        ELSE {"Continuing with existing app directory"})
                    /\ UNCHANGED <<exit_code, error>>
       ELSE /\ success' = "skipped"
            /\ pc' = "deps"
            /\ log' = log \cup {"Git not found - skipping repository updates"}
            /\ UNCHANGED <<app_dir, cmds, exit_code, error>>
    /\ UNCHANGED <<inputs, config, handles, history, net, proc, waiting, ui, deps>>

\* Variant of after_deps that ends the run on a failed installation.
after_deps_stop(ok) == IF ok THEN "port" ELSE "exit"

\* Lines 541-544: whatever install_dependencies returned, main() goes on to
\* find_available_port.
after_deps(ok) == "port"

\* Lines 540-542: a failed installation is logged and the run goes on.
InstallDeps ==
    /\ pc = "deps"
    /\ \E requirements_exists \in BOOLEAN, outcome \in Outcomes :
        LET ok == install_dependencies(requirements_exists, outcome) IN
        /\ deps' = IF ok THEN "ok" ELSE "failed"
        /\ log' = log \cup (IF ok THEN {} ELSE {"Dependency installation failed"})
        /\ pc' = after_deps(ok)
    /\ UNCHANGED <<inputs, config, handles, repo, net, proc, waiting, ui, exit_code, error>>

\* The sets of occupied ports Spec probes against: none, the first port, the
\* whole range.
PortRange(start) == {p \in start .. (start + MaxAttempts - 1) : p >= 0 /\ p <= MaxPortNumber}

Occupations(start) == {{}, {start} \cap PortRange(start), PortRange(start)}

\* Lines 544-550: pick the port; no port is fatal.  `occ` is what other
\* sockets hold while find_available_port probes.
PortStep(occ) ==
    LET r == find_available_port(port_start, MaxAttempts, occ) IN
    /\ occupied' = occ
    /\ IF r.error = "none"
       THEN /\ port' = r.port
            /\ pc' = "launch"
            /\ UNCHANGED <<exit_code, error, log>>
       ELSE /\ Fail(IF r.error = "LauncherError" THEN "NoPortAvailable" ELSE r.error)
            /\ UNCHANGED port
    /\ UNCHANGED <<inputs, config, handles, repo, proc, waiting, ui, deps>>

FindPort ==
    /\ pc = "port"
    /\ \E occ \in Occupations(port_start) : PortStep(occ)

\* Lines 552-558: spawn the server (Popen may raise) and start waiting for it
\* on check_host.
Launch ==
    /\ pc = "launch"
    /\ \E spawned \in BOOLEAN :
        IF spawned
        THEN /\ child' = [state |-> "starting", host |-> host, port |-> port,
                          python |-> python_exe]
             /\ probe' = Url(check_host(host), port)
             /\ timeout' = ReadyTimeout
             /\ elapsed' = 0
             /\ pc' = "wait"
             /\ UNCHANGED <<exit_code, error, log>>
        ELSE /\ Fail("LaunchFailed")
             /\ UNCHANGED <<child, probe, timeout, elapsed>>
    /\ UNCHANGED <<inputs, config, handles, repo, net, terms, in_time, ready, ui, deps>>

\* Variant of terminate that sends nothing.
terminate_skipped(n) == n

\* server_process.terminate() (lines 559 and 575): one more termination
\* request sent to the child.
terminate(n) == n + 1

\* Variant of gives_up that goes on whatever wait_for_server returned.
gives_up_never(is_ready) == FALSE

\* Line 558: if not wait_for_server(...).
gives_up(is_ready) == ~is_ready

\* Variant of loop_continues that never leaves the loop.
loop_forever(e, t) == TRUE

\* Line 381: while time.time() - start_time < timeout.
loop_continues(e, t) == e < t

\* wait_for_server, line 381: the loop test.  Past the timeout it returns
\* False, and main() (lines 558-560) terminates the child and raises.
WaitCheck ==
    /\ pc = "wait"
    /\ IF loop_continues(elapsed, timeout)
       THEN /\ pc' = "connect"
            /\ UNCHANGED <<exit_code, error, log, ready, terms>>
       ELSE /\ ready' = "false"
            /\ IF gives_up(FALSE)
               THEN /\ terms' = terminate(terms)
                    /\ Fail("ServerNotReady")
               ELSE /\ pc' = "browser"
                    /\ UNCHANGED <<exit_code, error, log, terms>>
    /\ UNCHANGED <<inputs, config, handles, repo, net, child, timeout, elapsed, in_time,
                   probe, ui, deps>>

\* Lines 382-389: one connection attempt.  It succeeds when the child
\* accepts connections (the function returns True); it
\* fails at once (refused) or after its one second timeout (two ticks).
ConnectTimeout == 2
SleepTicks == 1
ConnectDelays == {0, ConnectTimeout}

WaitConnect ==
    /\ pc = "connect"
    /\ IF child.state = "listening"
       THEN /\ ready' = "true"
            /\ pc' = "browser"
            /\ UNCHANGED elapsed
       ELSE /\ \E d \in ConnectDelays : elapsed' = elapsed + d
            /\ pc' = "sleep"
            /\ UNCHANGED ready
    /\ UNCHANGED <<inputs, config, handles, repo, net, proc, timeout, in_time, probe, ui,
                   deps, exit_code, error, log>>

\* Line 389: time.sleep(0.5).
WaitSleep ==
    /\ pc = "sleep"
    /\ elapsed' = elapsed + SleepTicks
    /\ pc' = "wait"
    /\ UNCHANGED <<inputs, config, handles, repo, net, proc, timeout, in_time, probe,
                   ready, ui, deps, exit_code, error, log>>

\* Lines 563-568: open the browser (an exception of webbrowser.open is caught
\* and logged) and log the URL.  wait_for_server's clock is gone by now.
OpenBrowser ==
    /\ pc = "browser"
    /\ browser' = Url(browser_host(host), port)
    /\ shown' = Url(browser_host(host), port)
    /\ log' = log \cup {"Localis is running"}
    /\ elapsed' = 0
    /\ pc' = "supervise"
    /\ UNCHANGED <<inputs, config, handles, repo, net, proc, timeout, in_time, probe, ready,
                   deps, exit_code, error>>

\* Lines 571-578: server_process.wait() returns when the child has exited.
Stopped ==
    /\ pc \in {"supervise", "grace"}
    /\ child.state = "exited"
    /\ pc' = "exit"
    /\ exit_code' = 0
    /\ log' = log \cup {"Localis stopped"}
    /\ UNCHANGED <<inputs, config, handles, repo, net, proc, waiting, ui, deps, error>>

\* Exit code of a process ended by an exception no handler of main() catches.
Uncaught == 0 - 2

\* Ctrl+C.  Inside server_process.wait() (lines 573-576) it is caught: the
\* child gets terminate() and the launcher waits up to 10 s.  Anywhere else
\* KeyboardInterrupt is no Exception and leaves main() uncaught.
Interrupt ==
    /\ pc # "exit"
    /\ IF pc = "supervise"
       THEN /\ terms' = terminate(terms)
            /\ pc' = "grace"
            /\ log' = log \cup {"Shutting down..."}
            /\ UNCHANGED <<exit_code, error>>
       ELSE /\ pc' = "exit"
            /\ exit_code' = Uncaught
            /\ error' = "KeyboardInterrupt"
            /\ UNCHANGED <<terms, log>>
    /\ UNCHANGED <<inputs, config, handles, repo, net, child, waiting, ui, deps>>

\* Line 576: server_process.wait(timeout=10) raises TimeoutExpired when the
\* child is still running after the grace period.
GraceExpired ==
    /\ pc = "grace"
    /\ child.state # "exited"
    /\ Fail("TimeoutExpired")
    /\ UNCHANGED <<inputs, config, handles, repo, net, proc, waiting, ui, deps>>

\* The child: it begins to accept connections, and it exits (by itself, or
\* after terminate()).
ChildListen ==
    /\ pc # "exit"
    /\ child.state = "starting"
    /\ child' = [child EXCEPT !.state = "listening"]
    /\ in_time' = (pc \in {"wait", "connect", "sleep"} /\ elapsed < timeout)
    /\ UNCHANGED <<inputs, config, handles, repo, net, terms, timeout, elapsed, probe,
                   ready, ui, deps, ctl, log>>

ChildExit ==
    /\ pc # "exit"
    /\ child.state \in {"starting", "listening"}
    /\ child' = [child EXCEPT !.state = "exited"]
    /\ UNCHANGED <<inputs, config, handles, repo, net, terms, waiting, ui, deps, ctl, log>>

Next ==
    \/ ResolveConfig \/ FindPython \/ FindGit \/ Sync \/ InstallDeps \/ FindPort
    \/ Launch \/ WaitCheck \/ WaitConnect \/ WaitSleep \/ OpenBrowser
    \/ Stopped \/ Interrupt \/ GraceExpired \/ ChildListen \/ ChildExit

Spec == Init /\ [][Next]_vars

\* ------------------------------------------- configuration resolution alone

\* Lines 478-496 on every environment and config file of Envs and Files.
InitConfig ==
    \E e \in Envs, f \in Files :
        /\ InputsAre(e, f, FALSE, AbsentDir) /\ disk = {} /\ At("config")
        /\ Unresolved /\ NoHandles /\ NoSync /\ NoNet /\ NoProc /\ NoWait /\ NoUi

SpecConfig == InitConfig /\ [][ResolveConfig]_vars

\* -------------------------------------- clone_or_update_repo, called again

\* The state main() calls clone_or_update_repo in, with system git.
Resolved(url, b) ==
    /\ repo_url = url /\ branch = b /\ host = DefaultHost /\ port_start = DefaultPort
    /\ python_exe = SysExecutable /\ git_exe = SystemGit /\ probes = 1

InitSync ==
    \E dir \in InitDirs, b \in Branches :
        /\ InputsAre(EmptyDict, NoFile, FALSE, dir) /\ disk = {} /\ At("sync")
        /\ Resolved(DefaultRepoUrl, b) /\ NoSync /\ NoNet /\ NoProc /\ NoWait /\ NoUi

\* How git answered each command that was issued, in the order of issue.
issued_answers(oc, issued) == [k \in DOMAIN issued |-> oc[issued[k].op]]

\* git answered every command of the update sequence with exit code 0.
update_answers_ok(oc) == oc.fetch = "ok" /\ oc.checkout = "ok" /\ oc.pull = "ok"

\* One more call on the same target, upstream unchanged: what it returned,
\* what it found and left on disk, the commands it issued, git's answers, and
\* whether they were all exit code 0.
SyncCall ==
    /\ pc = "sync"
    /\ Len(history) < MaxCalls
    /\ \E oc \in GitAnswers :
        LET r == clone_or_update_repo(app_dir, repo_url, branch, oc) IN
        /\ app_dir' = r.dir
        /\ cmds' = r.cmds
        /\ success' = IF r.ok THEN "ok" ELSE "failed"
        /\ history' = Append(history, [ok |-> r.ok, before |-> app_dir, dir |-> r.dir,
                                       cmds |-> r.cmds,
                                       answers |-> issued_answers(oc, r.cmds),
                                       answers_ok |-> update_answers_ok(oc)])
    /\ UNCHANGED <<inputs, config, handles, net, proc, waiting, ui, deps, ctl, log>>

SpecSync == InitSync /\ [][SyncCall]_vars

\* ------------------------------------------------ find_available_port alone

\* The starting ports and every set of occupied ports in the probed range.
PortStarts == {DefaultPort, IntTable["65530"]}

InitPort ==
    \E start \in PortStarts :
        \E occ \in SUBSET PortRange(start) :
            /\ InputsAre(EmptyDict, NoFile, FALSE, TrackedDir(DefaultBranch, "New"))
            /\ disk = {} /\ At("port")
            /\ repo_url = DefaultRepoUrl /\ branch = DefaultBranch /\ host = DefaultHost
            /\ port_start = start
            /\ python_exe = SysExecutable /\ git_exe = SystemGit /\ probes = 1
            /\ success = "ok" /\ cmds = <<>> /\ history = <<>> /\ deps = "ok"
            /\ occupied = occ /\ port = NoPort
            /\ NoProc /\ NoWait /\ NoUi

PortCall == pc = "port" /\ PortStep(occupied)

SpecPort == InitPort /\ [][PortCall]_vars

\* ---------------------------------------------------- wait_for_server alone

\* wait_for_server(host, port, t) on a child just spawned, for t up to MaxWait.
InitWait ==
    \E t \in 1 .. MaxWait :
        /\ InputsAre(EmptyDict, NoFile, FALSE, TrackedDir(DefaultBranch, "New"))
        /\ disk = {} /\ At("wait")
        /\ Resolved(DefaultRepoUrl, DefaultBranch)
        /\ success = "ok" /\ cmds = <<>> /\ history = <<>> /\ deps = "ok"
        /\ occupied = {} /\ port = DefaultPort
        /\ child = [state |-> "starting", host |-> DefaultHost, port |-> DefaultPort,
                    python |-> SysExecutable]
        /\ terms = 0
        /\ timeout = t /\ elapsed = 0 /\ in_time = FALSE
        /\ probe = Url(DefaultHost, DefaultPort) /\ ready = "none"
        /\ NoUi

NextWait == WaitCheck \/ WaitConnect \/ WaitSleep \/ ChildListen \/ ChildExit

\* The launcher's one thread keeps running: a step of the loop that can be
\* taken is taken.
SpecWait ==
    /\ InitWait
    /\ [][NextWait]_vars
    /\ WF_vars(WaitCheck) /\ WF_vars(WaitConnect) /\ WF_vars(WaitSleep)

\* ================================================================== claims

EnvGiven(name) == name \in DOMAIN env /\ env[name] # ""
KeyPresent(key) == file.status = "ok" /\ key \in DOMAIN file.content
KeyGiven(key) == KeyPresent(key) /\ file.content[key] # ""
EnvPortGiven ==
    /\ "LOCALIS_PORT" \in DOMAIN env
    /\ env["LOCALIS_PORT"] \in DOMAIN IntTable
    /\ IntTable[env["LOCALIS_PORT"]] # 0

\* C1 (as stated): each field resolves to the environment variable's value
\* when the variable is set, otherwise to the config file's value when the
\* key is present, otherwise to the default.
C1_SetWins ==
    pc = "python" =>
        /\ repo_url =
            IF "LOCALIS_APP_REPO_URL" \in DOMAIN env THEN env["LOCALIS_APP_REPO_URL"]
            ELSE IF KeyPresent("app_repo_url") THEN file.content["app_repo_url"]
            ELSE IF KeyPresent("repo_url") THEN file.content["repo_url"]
            ELSE DefaultRepoUrl
        /\ branch =
            IF "LOCALIS_APP_BRANCH" \in DOMAIN env THEN env["LOCALIS_APP_BRANCH"]
            ELSE IF KeyPresent("app_branch") THEN file.content["app_branch"]
            ELSE IF KeyPresent("branch") THEN file.content["branch"]
            ELSE DefaultBranch
        /\ host =
            IF "LOCALIS_HOST" \in DOMAIN env THEN env["LOCALIS_HOST"]
            ELSE IF KeyPresent("host") THEN file.content["host"]
            ELSE DefaultHost
        /\ port_start =
            IF "LOCALIS_PORT" \in DOMAIN env THEN IntTable[env["LOCALIS_PORT"]]
            ELSE IF KeyPresent("port") THEN file.content["port"]
            ELSE DefaultPort

\* C1 (amended): each field resolves to the environment variable's value when
\* the variable is set to a non-empty text (the port: to a non-zero integer),
\* otherwise to the config file's value when the key is present (repository
\* URL and branch: app_repo_url / app_branch when present and non-empty, else
\* the legacy repo_url / branch when present), otherwise to the default; and
\* with LOCALIS_PORT set to text that is no integer nothing is resolved.
C1_Priority ==
    /\ pc = "python" =>
        /\ repo_url =
            IF EnvGiven("LOCALIS_APP_REPO_URL") THEN env["LOCALIS_APP_REPO_URL"]
            ELSE IF KeyGiven("app_repo_url") THEN file.content["app_repo_url"]
            ELSE IF KeyPresent("repo_url") THEN file.content["repo_url"]
            ELSE DefaultRepoUrl
        /\ branch =
            IF EnvGiven("LOCALIS_APP_BRANCH") THEN env["LOCALIS_APP_BRANCH"]
            ELSE IF KeyGiven("app_branch") THEN file.content["app_branch"]
            ELSE IF KeyPresent("branch") THEN file.content["branch"]
            ELSE DefaultBranch
        /\ host =
            IF EnvGiven("LOCALIS_HOST") THEN env["LOCALIS_HOST"]
            ELSE IF KeyPresent("host") THEN file.content["host"]
            ELSE DefaultHost
        /\ port_start =
            IF EnvPortGiven THEN IntTable[env["LOCALIS_PORT"]]
            ELSE IF KeyPresent("port") THEN file.content["port"]
            ELSE DefaultPort
    /\ ("LOCALIS_PORT" \in DOMAIN env /\ env["LOCALIS_PORT"] \notin DOMAIN IntTable)
        => (pc # "python" /\ (pc = "exit" => exit_code = 1))

\* C1 witness: all three sources hold every field and the fields are resolved.
C1_AllSourcesSet ==
    /\ pc = "python"
    /\ \A name \in EnvNames : EnvGiven(name)
    /\ EnvPortGiven
    /\ \A key \in {"app_repo_url", "repo_url", "app_branch", "branch", "host", "port"} :
        KeyPresent(key)
    /\ repo_url = env["LOCALIS_APP_REPO_URL"]

\* What ends a run with code 1 once the configuration is resolved.
LaterErrors ==
    {"PythonNotFound", "ProbeError", "GitNotFound", "RepoUnavailable", "NoPortAvailable",
     "OverflowError", "LaunchFailed", "ServerNotReady", "TimeoutExpired"}

NoRepoUrlGiven == "LOCALIS_APP_REPO_URL" \notin DOMAIN env /\ file.status = "missing"
ConfigResolved ==
    pc # "config" /\ error \notin {"ValueError", "AttributeError", "KeyboardInterrupt"}

SyncRan == success \in {"ok", "failed"}
Clones == {i \in DOMAIN cmds : cmds[i].op = "clone"}

\* C3: app/ absent at the start and the clone fails: the launcher exits with
\* code 1, the clone was attempted exactly once and no server is spawned.
C3_CloneFailureFatal ==
    (dir0.kind = "Absent" /\ success = "failed") =>
        /\ pc = "exit" /\ exit_code = 1
        /\ Cardinality(Clones) = 1
        /\ child.state = "none"

\* C4: synchronization on an absent app/ ends with a checkout of the
\* requested branch, or with a reported clone failure and no directory left.
C4_TrackedOrNothing ==
    (dir0.kind = "Absent" /\ SyncRan) =>
        \/ success = "ok" /\ app_dir.kind = "Tracked" /\ app_dir.branch = branch
        \/ success = "failed" /\ app_dir.kind = "Absent" /\ error = "RepoUnavailable"

\* C5: app/ exists without .git: clone_or_update_repo fails, no git command is
\* issued, the directory stays as it was, and the failure does not end the
\* run (the warning is logged and main() goes on).
C5_UntrackedRefused ==
    dir0.kind = "Untracked" =>
        /\ app_dir = dir0
        /\ cmds = <<>>
        /\ success # "ok"
        /\ success = "failed" => "Continuing with existing app directory" \in log
        /\ error # "RepoUnavailable"
        /\ (pc \in {"deps", "port", "launch"} /\ git_exe # None) => success = "failed"

\* C5 witness: the server was launched from the untracked directory after the
\* refusal.
C5_LaunchedFromUntracked ==
    /\ dir0.kind = "Untracked" /\ success = "failed"
    /\ child.state = "listening" /\ pc = "supervise"

\* C6: app/ is a checkout and the update fails: a warning is logged, the run
\* goes on to dependencies, port and launch, and the failure never ends it.
C6_UpdateFailureNonFatal ==
    (dir0.kind = "Tracked" /\ success = "failed") =>
        /\ "Continuing with existing app directory" \in log
        /\ error # "RepoUnavailable"
        /\ pc \notin {"config", "python", "git", "sync"}
        /\ exit_code = 1 =>
            error \in {"NoPortAvailable", "OverflowError", "LaunchFailed", "ServerNotReady",
                       "TimeoutExpired"}

\* C6 witness: the server runs after a failed fetch, checkout or pull.
C6_LaunchedAfterFailedUpdate ==
    /\ dir0.kind = "Tracked" /\ success = "failed"
    /\ Len(cmds) = 3
    /\ child.state = "listening" /\ pc = "supervise"

\* C10: the readiness probe and the browser / displayed URL use 127.0.0.1
\* when the configured host is 0.0.0.0 and the configured host otherwise, with
\* the port the child was launched with; the child gets the configured host.
C10_HostRewrite ==
    LET expected == IF host = "0.0.0.0" THEN "127.0.0.1" ELSE host IN
    /\ child.state # "none" =>
        /\ child.host = host /\ child.port = port
        /\ probe = [host |-> expected, port |-> child.port]
    /\ browser # NoUrl => browser = [host |-> expected, port |-> child.port]
    /\ shown # NoUrl => shown = [host |-> expected, port |-> child.port]

\* C10 witness: a wildcard host was probed and shown as loopback.
C10_WildcardShown ==
    /\ host = "0.0.0.0"
    /\ probe.host = "127.0.0.1" /\ browser.host = "127.0.0.1" /\ shown.host = "127.0.0.1"
    /\ ready = "true"

Again == {i \in DOMAIN history : i > 1 /\ history[i - 1].ok}

\* C7 (as stated): a call that follows a successful call on the same target,
\* upstream unchanged, returns success and leaves content and branch as the
\* first call left them.
C7_SecondCallSucceeds ==
    \A i \in Again : history[i].ok /\ history[i].dir = history[i - 1].dir

\* C7 (amended): such a call leaves content and branch as the first call left
\* them and clones nothing; it returns success exactly when git answers its
\* fetch, checkout and pull with exit code 0, and failure when one of them
\* fails or times out.
C7_SecondCallIdempotent ==
    \A i \in Again :
        /\ history[i].dir = history[i - 1].dir
        /\ history[i].dir.kind = "Tracked" /\ history[i].dir.branch = branch
        /\ \A k \in DOMAIN history[i].cmds : history[i].cmds[k].op # "clone"
        /\ history[i].ok <=> history[i].answers_ok

\* C7 witness: a clone, then a successful update that changed nothing.
C7_CloneThenUpdate ==
    /\ Len(history) >= 2
    /\ history[1].ok /\ history[1].cmds = <<CloneCmd(repo_url, branch)>>
    /\ history[2].ok /\ Len(history[2].cmds) = 3
    /\ history[2].dir = history[1].dir
    /\ branch # DefaultBranch

\* The ports of the probed range on which a bind succeeds.
Bindable ==
    {p \in port_start .. (port_start + MaxAttempts - 1) :
        p >= 0 /\ p <= MaxPortNumber /\ p \notin occupied}

\* C8: find_available_port returns the smallest port of the range on which a
\* bind succeeds, and raises the no-port-available error exactly when no port
\* of the range can be bound.
C8_SmallestFreePort ==
    pc # "port" =>
        IF Bindable # {}
        THEN /\ error = "none"
             /\ port \in Bindable
             /\ \A p \in Bindable : port <= p
        ELSE error = "NoPortAvailable" /\ port = NoPort

\* C9 (as stated): wait_for_server returns true if a listener starts to accept
\* connections before the timeout elapses, and false only if none does.
C9_ListenerInTimeIsSeen ==
    /\ ready = "false" => ~in_time
    /\ ready = "true" => in_time

\* C9 (amended): wait_for_server always returns, at the latest one attempt
\* and one sleep after the timeout; it returns true exactly when one of its
\* connection attempts, each begun before the timeout elapsed, finds the
\* listener accepting (one opened mid-wait included), and false once the
\* timeout has elapsed without such an attempt, also when a listener opened
\* after the last attempt.
C9_WaitReturns ==
    /\ <>(ready # "none")
    /\ [](elapsed < timeout + ConnectTimeout + SleepTicks)
    /\ [][(ready = "none" /\ ready' = "true")
            => (pc = "connect" /\ child.state = "listening" /\ elapsed < timeout)]_vars
    /\ [][(ready = "none" /\ ready' = "false") => (pc = "wait" /\ elapsed >= timeout)]_vars
    /\ [][(pc = "connect" /\ pc' # "connect")
            => (ready' = "true" <=> child.state = "listening")]_vars

\* C9 witness: a listener opened mid-wait, after a failed attempt, was found.
C9_FoundMidWait ==
    ready = "true" /\ elapsed > 0 /\ in_time

\* C11: after one interrupt during supervision the child gets one termination
\* request, and the launcher exits only once the child is gone (ended by
\* force if it outlived the grace period).
C11_ForcedAfterGrace ==
    ("Shutting down..." \in log /\ error # "KeyboardInterrupt") =>
        /\ terms = 1
        /\ pc = "exit" => child.state = "exited"

\* The errors the top level of main() is to turn into exit code 1.
FatalConditions ==
    {"ValueError", "AttributeError", "PythonNotFound", "GitNotFound", "RepoUnavailable",
     "NoPortAvailable", "OverflowError", "LaunchFailed", "ServerNotReady"}

\* C12: a run ends with code 1 exactly when a fatal condition occurred, caught
\* and logged at the top level, and with code 0 on a graceful shutdown (the
\* child has exited); a failed first clone is among the fatal conditions.
C12_ExitCodes ==
    pc = "exit" =>
        /\ exit_code \in {0, 1}
        /\ exit_code = 1 <=> error \in FatalConditions
        /\ exit_code = 1 => {"Launcher error", "Unexpected error"} \cap log # {}
        /\ exit_code = 0 => child.state = "exited"
        /\ (dir0.kind = "Absent" /\ success = "failed") => exit_code = 1

\* The interpreter the search order prescribes for the disk and mode of the run.
ExpectedPython ==
    IF InstallPython \in disk THEN InstallPython
    ELSE IF is_frozen /\ BundlePython \in disk THEN BundlePython
    ELSE IF ~is_frozen THEN SysExecutable
    ELSE None

AfterPython ==
    pc \in {"git", "sync", "deps", "port", "launch", "wait", "connect", "sleep", "browser",
            "supervise", "grace"}

\* C13: the interpreter is the install-root candidate if it exists, else the
\* bundle-root candidate if a bundle root is given and it exists, else the
\* running interpreter in script mode only; a frozen run with neither
\* candidate goes no further than the search, exits with code 1 and spawns
\* no child, and no frozen run launches the child with the host's interpreter.
C13_InterpreterChoice ==
    /\ python_exe # None => python_exe = ExpectedPython
    /\ AfterPython => python_exe # None
    /\ error = "PythonNotFound" =>
        (ExpectedPython = None /\ pc = "exit" /\ exit_code = 1)
    /\ ExpectedPython = None =>
        /\ is_frozen /\ ~AfterPython /\ child = NoChild
        /\ pc = "exit" =>
            error \in {"ValueError", "AttributeError", "KeyboardInterrupt", "PythonNotFound"}
    /\ child.state # "none" =>
        (child.python = ExpectedPython /\ (is_frozen => child.python # SysExecutable))

\* C13 witness: a frozen run without a bundled interpreter has exited with
\* code 1 at the search.
C13_FrozenWithoutPython ==
    /\ is_frozen /\ disk \cap {InstallPython, BundlePython} = {}
    /\ error = "PythonNotFound" /\ exit_code = 1 /\ child = NoChild

\* find_bundled_git returned None and main() is at, or past, the test of line 529.
GitMissing == git_exe = None /\ (pc = "sync" \/ success = "skipped")

\* C14: without a version-control tool the launcher exits with code 1, with
\* no child, exactly when app/ does not exist; when app/ exists the
\* synchronisation is skipped (no git command, the directory untouched) and
\* the run goes on to the launch, never ending on account of the missing tool.
C14_NoGit ==
    /\ error = "GitNotFound" =>
        /\ dir0.kind = "Absent" /\ git_exe = None
        /\ pc = "exit" /\ exit_code = 1
        /\ child = NoChild /\ cmds = <<>>
    /\ GitMissing =>
        /\ dir_exists(dir0) /\ app_dir = dir0 /\ cmds = <<>>
        /\ error \notin {"GitNotFound", "RepoUnavailable"}
    /\ success = "skipped" =>
        /\ git_exe = None
        /\ "Git not found - skipping repository updates" \in log
        /\ pc \notin {"config", "python", "git", "sync"}
        /\ exit_code = 1 =>
            error \in {"NoPortAvailable", "OverflowError", "LaunchFailed", "ServerNotReady",
                       "TimeoutExpired"}
    /\ (git_exe = None /\ child.state # "none") => success = "skipped"

\* C14 witness: the server runs from an existing app/ although no git was found.
C14_LaunchedWithoutGit ==
    /\ git_exe = None /\ success = "skipped"
    /\ dir_exists(dir0) /\ app_dir = dir0
    /\ child.state = "listening" /\ pc = "supervise"

UpdateSequence == <<FetchCmd, CheckoutCmd(branch), PullCmd>>
Updates == {i \in DOMAIN history : history[i].before.kind = "Tracked"}

\* C15: on a tracked checkout the commands issued are fetch, checkout of the
\* target branch, pull, in that order; each is issued only after the one
\* before it exited with code 0, the first that fails or times out is the
\* last one issued and the call reports failure; the call reports success
\* only when all three were issued and exited with code 0.
C15_UpdateSequence ==
    \A i \in Updates :
        LET h == history[i]
            n == Len(h.cmds)
        IN  /\ n \in 1 .. 3
            /\ h.cmds = SubSeq(UpdateSequence, 1, n)
            /\ \A k \in 1 .. (n - 1) : h.answers[k] = "ok"
            /\ n < 3 => h.answers[n] # "ok"
            /\ h.ok <=> (n = 3 /\ h.answers[3] = "ok")

\* C15 witness: an update stopped at a failed checkout, after a fetch that
\* succeeded, without a pull.
C15_StoppedAtCheckout ==
    \E i \in Updates :
        /\ history[i].cmds = <<FetchCmd, CheckoutCmd(branch)>>
        /\ history[i].answers[2] \in {"nonzero", "timeout"}
        /\ ~history[i].ok

\* C16: when wait_for_server returns False the child that was spawned gets a
\* termination request, the launcher exits with code 1 on the logged error
\* and the browser is never opened.
C16_NotReadyCleanup ==
    /\ ready = "false" =>
        /\ child.state # "none" /\ terms = 1
        /\ pc = "exit" /\ exit_code = 1 /\ error = "ServerNotReady"
        /\ "Launcher error" \in log
        /\ browser = NoUrl /\ shown = NoUrl
    /\ error = "ServerNotReady" => ready = "false"

\* C16 witness: the wait gave up on a child that had not begun to listen.
C16_GaveUpOnChild ==
    /\ ready = "false" /\ child.state = "starting"
    /\ terms = 1 /\ exit_code = 1

ChildRunning == child.state \in {"starting", "listening"}

\* C17: once the child is spawned the launcher never exits while the child
\* is still running without having sent it a termination request, and never
\* leaves it running after the grace period.
C17_ChildNeverOrphaned ==
    (pc = "exit" /\ ChildRunning) => (terms >= 1 /\ error # "TimeoutExpired")

\* C18: a missing, unreadable or malformed config file resolves every field
\* from the environment and the defaults, and nothing in the config file
\* makes the configuration step exit with code 1: only a LOCALIS_PORT that is
\* no integer does.
C18_ConfigFileNeverFatal ==
    /\ (file.status \in {"missing", "malformed"} /\ pc = "python") =>
        /\ repo_url = Or(getenv(env, "LOCALIS_APP_REPO_URL"), DefaultRepoUrl)
        /\ branch = Or(getenv(env, "LOCALIS_APP_BRANCH"), DefaultBranch)
        /\ host = Or(getenv(env, "LOCALIS_HOST"), DefaultHost)
    /\ file.status \in {"missing", "malformed"} => error # "AttributeError"
    /\ exit_code = 1 =>
        ("LOCALIS_PORT" \in DOMAIN env /\ env["LOCALIS_PORT"] \notin DOMAIN IntTable)

ValidPorts == 1 .. MaxPortNumber

\* C19: the starting port main() resolves, the port find_available_port
\* returns and the port the child is launched with all lie in 1 .. 65535.
C19_PortInRange ==
    /\ port_start # NoPort => port_start \in ValidPorts
    /\ port # NoPort => port \in ValidPorts
    /\ child.state # "none" => child.port \in ValidPorts

\* What the search order prescribes for git: a bundled path, or the PATH probe.
ExpectedGit ==
    IF InstallGit \in disk THEN InstallGit
    ELSE IF is_frozen /\ BundleGit \in disk THEN BundleGit
    ELSE "probe"

\* The search order and the probe count alone.
GitSearchOrder ==
    /\ probes <= 1
    /\ ExpectedGit # "probe" => (probes = 0 /\ git_exe \in {None, ExpectedGit})
    /\ ExpectedGit = "probe" => git_exe \in {None, SystemGit}
    /\ git_exe = SystemGit => probes = 1
    /\ (git_exe = None /\ (pc = "sync" \/ success = "skipped")) =>
        (ExpectedGit = "probe" /\ probes = 1)

\* C20: git is the install-root path if it exists, else the bundle-root path
\* if it exists, else the system command after a probe that exited with code
\* 0; the probe is spawned at most once and only without a bundled path, and
\* no outcome of the probe reaches the caller as an exception.
C20_GitSearch ==
    /\ GitSearchOrder
    /\ error # "ProbeError"

SyncDone == success \in {"ok", "failed", "skipped"}
Spawned == child.state # "none"

\* C21: the steps follow one another: the child is spawned only once, at the
\* launch step, after the synchronisation has finished or was skipped, the
\* dependencies were handled and a free port was selected; the readiness
\* wait runs only on a spawned child; the browser is opened, and the run goes
\* on to supervision, only after the wait returned ready.
C21_StepsInSequence ==
    /\ [](Spawned =>
            /\ SyncDone /\ deps # "none"
            /\ port # NoPort /\ port \notin occupied /\ child.port = port)
    /\ [](pc \in {"wait", "connect", "sleep"} =>
            (Spawned /\ ready = "none" /\ browser = NoUrl /\ shown = NoUrl))
    /\ [](ready # "none" => Spawned)
    /\ []((browser # NoUrl \/ shown # NoUrl \/ pc \in {"browser", "supervise", "grace"})
            => ready = "true")
    /\ [][(~Spawned /\ Spawned') => (pc = "launch" /\ pc' = "wait")]_vars
    /\ [][Spawned =>
            /\ child'.host = child.host /\ child'.port = child.port
            /\ child'.python = child.python
            /\ child'.state # "none"
            /\ child'.state = "starting" => child.state = "starting"]_vars
    /\ [][browser' # browser => (pc = "browser" /\ browser = NoUrl)]_vars

\* C21 witness: a run that cloned, installed, picked a port, spawned the
\* child, found it ready and opened the browser.
C21_WholeSequence ==
    /\ dir0.kind = "Absent" /\ success = "ok" /\ deps = "ok"
    /\ child.state = "listening" /\ child.port = port
    /\ ready = "true" /\ browser # NoUrl /\ pc = "supervise"

DepsDone == deps \in {"ok", "failed"}

\* C22: install_dependencies runs once, after the synchronisation and before
\* the port is selected, and whatever it returns the run goes on to port
\* selection and launch: a run in which it ran ends, if at all, on a later
\* error, an interrupt or the child's exit.
C22_DepsNeverBlock ==
    /\ [](DepsDone => (SyncDone /\ pc \notin {"config", "python", "git", "sync", "deps"}))
    /\ [](pc \in {"port", "launch"} => DepsDone)
    /\ []((port # NoPort \/ Spawned) => DepsDone)
    /\ [](deps = "failed" <=> "Dependency installation failed" \in log)
    /\ []((DepsDone /\ pc = "exit") =>
            \/ exit_code = 0
            \/ error = "KeyboardInterrupt"
            \/ exit_code = 1 /\ error \in {"NoPortAvailable", "OverflowError", "LaunchFailed",
                                            "ServerNotReady", "TimeoutExpired"})
    /\ [][deps' # deps => (pc = "deps" /\ deps = "none" /\ pc' = "port" /\ port = NoPort)]_vars

\* C22 witness: the server runs although the installation failed.
C22_LaunchedAfterFailedInstall ==
    /\ deps = "failed"
    /\ child.state = "listening" /\ ready = "true" /\ pc = "supervise"

====
